---- MODULE Spec2Model ----
(***************************************************************************)
(* CloudHarvester (src/cloud_harvester.py): the session loop of start(),   *)
(* the liveness loop inside it, the interaction procedure perform_harvest  *)
(* and the two engine callbacks handle_route and handle_response, under    *)
(* asyncio's cooperative scheduling.  A coroutine runs from one await to   *)
(* the next without interruption, so every action below is the code        *)
(* between two consecutive suspension points, and pc[l] names the await    *)
(* at which the start() coroutine l is suspended.                          *)
(***************************************************************************)
EXTENDS Integers, Sequences, FiniteSets, TLC

\* ------------------------------------------------------------- bounds
\* The reading of time.time() when the harvester is constructed (an epoch
\* clock: far more than the harvest interval).
StartTime == 3000
\* The horizons of the specifications: the clock is no longer advanced that
\* many seconds after StartTime.
MainElapsed == 10
LoginElapsed == 65
CbElapsed == 10
MultiElapsed == 10
HarvestElapsed == 10
\* SpecStop: stop requests arrive in the first StopBy seconds, and the clock
\* runs StopElapsed seconds, long enough for every sleep that follows one.
StopBy == 5
StopElapsed == 40

\* ---------------------------------------------------- program constants
LoginCooldown == 60
HarvestInterval == 2700
PollInterval == 5
Backoff == 10
EditorTimeout == 5
\* A sleep may overrun: the model lets any sleep take its duration or LongSleep.
LongSleep == 60

\* The start() coroutines that may exist at once.
Loops == {1, 2}

\* Python's None, for the fields that hold text.
None == "<None>"

VARIABLES
    is_running,             \* self.is_running
    last_harvest_time,      \* self.last_harvest_time
    current_cookies,        \* self.current_cookies: None or serialized text
    restart_requested,      \* self.restart_requested
    refresh_needed,         \* self.refresh_needed
    last_login_retry_time,  \* self.last_login_retry_time
    browser,                \* self.browser: 0 (None) or the loop that launched it
    page,                   \* self.page: 0 (None) or the loop that opened it
    latest_harvest,         \* cred_manager.latest_harvest: <<>> or <<the artifact>>
    now,                    \* time.time()
    pc,                     \* pc[l]: the await start() coroutine l is suspended at
    ret,                    \* ret[l]: the call site perform_harvest returns to
    cookies,                \* cookies[l]: the local variable `cookies` of start()
    ctx,                    \* ctx[l]: the engine's browser context of coroutine l
    event,                  \* the last callback invocation and its calls on the engine and sink
    last_detection,         \* the time of the last login-redirect detection, 0 if none
    obs                     \* obs[l]: the ticks coroutine l has begun since its last
                            \* completed sleep (counted to 2), the outcome of the
                            \* initial navigation it has just left, and whether a
                            \* 401/403 arrived during the navigation or reload it is
                            \* suspended in

fields == <<is_running, last_harvest_time, current_cookies, restart_requested,
            refresh_needed, last_login_retry_time, browser, page>>
vars == <<is_running, last_harvest_time, current_cookies, restart_requested,
          refresh_needed, last_login_retry_time, browser, page, latest_harvest,
          now, pc, ret, cookies, ctx, event, last_detection, obs>>

\* ------------------------------------------------ authentication material
\* Serialized material: two well-formed cookie lists, one truncated text, and
\* None (the environment variable unset).
Materials == {None, "[c1]", "[c2]", "[c1"}

Truthy(m) == m \notin {None, ""}

\* json.loads on the material texts: the decoded list, or JSONDecodeError.
JsonLoads(s) ==
    CASE s = "[c1]" -> [ok |-> TRUE, val |-> <<"c1">>]
      [] s = "[c2]" -> [ok |-> TRUE, val |-> <<"c2">>]
      [] OTHER -> [ok |-> FALSE, val |-> <<>>]

\* MaterialAfterDecode without the assignment of line 57.
MaterialKept(m) == m

\* Lines 50-57: the material after the attempt to decode it.
MaterialAfterDecode(m) == IF Truthy(m) /\ ~JsonLoads(m).ok THEN None ELSE m

\* The engine side of one iteration of the session loop: nothing, a launched
\* browser, or a browser with a context and the cookies injected into it.
NoContext == [state |-> "none", cookies |-> <<>>]

\* ------------------------------------------------------------ the clock
\* asyncio.sleep(n): at least n seconds.  h: the model's horizon, the number
\* of seconds after StartTime at which the clock is no longer advanced.
\* A horizon beyond the harvest interval stands for two windows of the clock:
\* the seconds up to h - HarvestInterval, and those from HarvestInterval to h.
Readings(h) ==
    IF h < HarvestInterval THEN 0..h
    ELSE (0..(h - HarvestInterval)) \cup (HarvestInterval..h)

SleepTimes(n, h) ==
    {d \in {n, LongSleep, HarvestInterval} :
        d >= n /\ now + d <= StartTime + h /\ (now + d) - StartTime \in Readings(h)}

\* A pause shorter than the polling interval (1 s, 0.5 s, 3 s): on the model's
\* clock, which counts in polling intervals, none or one.
ShortSleepTimes(h) ==
    {d \in {0, PollInterval} :
        now + d <= StartTime + h /\ (now + d) - StartTime \in Readings(h)}

\* ------------------------------------------------- control flow of start()
\* A control decision: the next suspension point, and the values the decision
\* leaves in last_login_retry_time and last_detection.
Stay(p) == [pc |-> p, llrt |-> last_login_retry_time, det |-> last_detection]

\* OuterTop with the session loop never reading is_running.
OuterTopForever(run) == "pw_start"

\* Line 42: `while self.is_running`, entering `async with async_playwright()`.
OuterTop(run) == IF run THEN "pw_start" ELSE "idle"

\* LoopCondition with the restart request left out of the condition.
LoopConditionNoRestart(run, rst) == run

\* Line 78: the condition of the liveness loop.
LoopCondition(run, rst) == run /\ ~rst

\* LoginBranch with the cooldown measured from the wrong field.
LoginBranchWrongField(llrt, t) ==
    IF t - last_harvest_time > LoginCooldown
    THEN [pc |-> "retry_goto", llrt |-> t, det |-> t]
    ELSE [pc |-> "close_expired", llrt |-> llrt, det |-> t]

\* Lines 95-110: a login redirect was detected at time t.
LoginBranch(llrt, t) ==
    IF t - llrt > LoginCooldown
    THEN [pc |-> "retry_goto", llrt |-> t, det |-> t]
    ELSE [pc |-> "close_expired", llrt |-> llrt, det |-> t]

\* Lines 78-94: one evaluation of the loop condition and the start of a tick,
\* up to its first await.  onUrl: "accounts.google.com" in self.page.url.
Tick(run, rst, rfn, llrt, det, t, onUrl) ==
    IF ~LoopCondition(run, rst) THEN [pc |-> "close", llrt |-> llrt, det |-> det]
    ELSE IF rfn THEN [pc |-> "reload", llrt |-> llrt, det |-> det]
    ELSE IF onUrl THEN LoginBranch(llrt, t)
    ELSE [pc |-> "title", llrt |-> llrt, det |-> det]

\* HarvestDue without the case of no capture so far.
HarvestDueAfterCapture(t, lht, latest) == lht # 0 /\ t - lht > HarvestInterval

\* HarvestDue with the interval counted as elapsed at exactly 2700 s.
HarvestDueInclusive(t, lht, latest) == t - lht >= HarvestInterval \/ latest = <<>>

\* Line 113: the harvest is due.
HarvestDue(t, lht, latest) == t - lht > HarvestInterval \/ latest = <<>>

\* Line 162: perform_harvest returns at once without a page.
HarvestEntry(pg) == IF pg = 0 THEN "return" ELSE "ph_dialog"

\* Lines 112-116: the harvest branch, up to its first await.
CaseC(t, lht, latest, pg) ==
    IF HarvestDue(t, lht, latest) /\ HarvestEntry(pg) = "ph_dialog"
    THEN "ph_dialog" ELSE "sleep_tick"

\* AfterHarvest without the `continue` of line 91: the refresh branch falls
\* through to the login check.
AfterHarvestFallsThrough(site, run, rst, rfn, llrt, det, t, onUrl) ==
    IF site = "A"
    THEN (IF onUrl THEN LoginBranch(llrt, t) ELSE [pc |-> "title", llrt |-> llrt, det |-> det])
    ELSE [pc |-> "sleep_tick", llrt |-> llrt, det |-> det]

\* perform_harvest returns to its call site: line 88 then `continue` (site
\* "A", the refresh branch) or line 114 then the polling sleep (site "C").
AfterHarvest(site, run, rst, rfn, llrt, det, t, onUrl) ==
    IF site = "A" THEN Tick(run, rst, rfn, llrt, det, t, onUrl)
    ELSE [pc |-> "sleep_tick", llrt |-> llrt, det |-> det]

\* The suspension points at which the page of coroutine l exists with both
\* callbacks registered (lines 64-118).
HarvestPcs == {"ph_dialog", "ph_terms", "ph_sleep1", "ph_agree", "ph_popups",
               "ph_editor", "ph_type", "ph_sleep_half", "ph_press", "ph_settle"}
InnerPcs == HarvestPcs \cup {"reload", "sleep_refresh", "title", "retry_goto",
                             "sleep_retry", "sleep_tick"}
PagePcs == InnerPcs \cup {"goto", "close", "close_expired"}

\* The suspension points a tick begins with (the first await after line 78).
TickFirstPcs == {"reload", "title", "retry_goto", "close_expired"}

\* The suspension points in asyncio.sleep.
SleepPcs == {"sleep_bad", "sleep_err", "sleep_refresh", "sleep_retry", "sleep_tick",
             "ph_sleep1", "ph_sleep_half", "ph_settle"}

\* The suspension points in the initial navigation (line 70) and in the
\* reload of the refresh branch (line 84).
LoadPcs == {"goto", "reload"}

\* The outcomes of the initial navigation (lines 69-72).
Navigations == {"ok", "failed"}

\* ------------------------------------------------------------- frames
env == <<is_running, last_harvest_time, latest_harvest, event>>
flags == <<restart_requested, refresh_needed>>
handles == <<browser, page>>
locals == <<ret, cookies>>

\* What is observed of coroutine l as it goes from pc[l] to `to`: a completed
\* sleep and the entry of the liveness loop (line 77) start the count of ticks
\* anew, an evaluation of line 78 that begins a tick adds one, and outside the
\* liveness loop there are no ticks.  The operation it was suspended in is
\* over, and with it the signals that arrived during that operation.
Observed(l, to, nav) ==
    LET n == IF pc[l] \in SleepPcs \cup {"goto"} THEN 0 ELSE obs[l].ticks
        begins == to \in TickFirstPcs /\ pc[l] # "title"
    IN  [ticks |-> IF to \notin InnerPcs \cup {"close_expired"} THEN 0
                   ELSE IF begins THEN (IF n = 0 THEN 1 ELSE 2)
                   ELSE n,
         nav |-> nav,
         signal |-> FALSE]

\* Coroutine l resumes at time t and suspends again as decided by r; nav: the
\* outcome of the initial navigation, if that is what it resumes from.
Resume(l, r, t, nav) ==
    /\ pc' = [pc EXCEPT ![l] = r.pc]
    /\ last_login_retry_time' = r.llrt
    /\ last_detection' = r.det
    /\ now' = t
    /\ obs' = [obs EXCEPT ![l] = Observed(l, r.pc, nav)]

Move(l, r, t) == Resume(l, r, t, "none")

\* Leaving `async with async_playwright()` stops the engine of this iteration.
ExitWith(l) == ctx' = [ctx EXCEPT ![l] = NoContext]

\* Raise with no handler at line 122: the exception leaves start().
RaisePropagates(l) ==
    /\ Move(l, Stay("idle"), now)
    /\ ctx' = [ctx EXCEPT ![l] = NoContext]
    /\ UNCHANGED <<env, current_cookies, flags, handles, locals>>

\* An exception reaches line 122: the iteration ends in the backoff sleep.
Raise(l) ==
    /\ Move(l, Stay("sleep_err"), now)
    /\ ExitWith(l)
    /\ UNCHANGED <<env, current_cookies, flags, handles, locals>>

\* --------------------------------------------------------------- Init
Init ==
    /\ is_running = FALSE
    /\ last_harvest_time = 0
    /\ current_cookies \in Materials
    /\ restart_requested = FALSE
    /\ refresh_needed = FALSE
    /\ last_login_retry_time = 0
    /\ browser = 0
    /\ page = 0
    /\ latest_harvest = <<>>
    /\ now = StartTime
    /\ pc = [l \in Loops |-> "idle"]
    /\ ret = [l \in Loops |-> "C"]
    /\ cookies = [l \in Loops |-> <<>>]
    /\ ctx = [l \in Loops |-> NoContext]
    /\ event = [op |-> "none"]
    /\ last_detection = 0
    /\ obs = [l \in Loops |-> [ticks |-> 0, nav |-> "none", signal |-> FALSE]]

\* ------------------------------------------------------ the session loop
\* Lines 31-44: start() called as coroutine l.
Start(l) ==
    /\ pc[l] = "idle"
    /\ is_running' = TRUE
    /\ Move(l, Stay(IF is_running THEN "idle" ELSE OuterTop(TRUE)), now)
    /\ UNCHANGED <<last_harvest_time, latest_harvest, event, current_cookies,
                   flags, handles, locals, ctx>>

\* Line 44: async_playwright() entered, or raising.
PwStart(l) ==
    /\ pc[l] = "pw_start"
    /\ \/ /\ Move(l, Stay("launch"), now)
          /\ UNCHANGED <<env, current_cookies, flags, handles, locals, ctx>>
       \/ Raise(l)

\* Line 45: chromium.launch returns the browser, or raises.
Launch(l) ==
    /\ pc[l] = "launch"
    /\ \/ /\ Move(l, Stay("new_context"), now)
          /\ browser' = l
          /\ ctx' = [ctx EXCEPT ![l] = [state |-> "launched", cookies |-> <<>>]]
          /\ UNCHANGED <<env, current_cookies, flags, page, locals>>
       \/ Raise(l)

\* Lines 46-59: new_context returns; the material, if any, is decoded.
NewContext(l) ==
    /\ pc[l] = "new_context"
    /\ \/ /\ ~Truthy(current_cookies)
          /\ Move(l, Stay("new_page"), now)
          /\ ctx' = [ctx EXCEPT ![l] = [state |-> "open", cookies |-> <<>>]]
          /\ UNCHANGED <<env, current_cookies, flags, handles, locals>>
       \/ /\ Truthy(current_cookies)
          /\ JsonLoads(current_cookies).ok
          /\ Move(l, Stay("add_cookies"), now)
          /\ cookies' = [cookies EXCEPT ![l] = JsonLoads(current_cookies).val]
          /\ ctx' = [ctx EXCEPT ![l] = [state |-> "open", cookies |-> <<>>]]
          /\ UNCHANGED <<env, current_cookies, flags, handles, ret>>
       \/ /\ Truthy(current_cookies)
          /\ ~JsonLoads(current_cookies).ok
          /\ current_cookies' = MaterialAfterDecode(current_cookies)
          /\ Move(l, Stay("sleep_bad"), now)
          /\ ctx' = [ctx EXCEPT ![l] = [state |-> "open", cookies |-> <<>>]]
          /\ UNCHANGED <<env, flags, handles, locals>>
       \/ Raise(l)

\* Line 58-59: the backoff after malformed material, then `continue`.
SleepBad(l, h) ==
    /\ pc[l] = "sleep_bad"
    /\ \E d \in SleepTimes(Backoff, h) :
          Move(l, Stay(OuterTop(is_running)), now + d)
    /\ ExitWith(l)
    /\ UNCHANGED <<env, current_cookies, flags, handles, locals>>

\* Line 53: add_cookies injects the decoded list, or raises.  `cookies` is not
\* read again before line 52 assigns it anew.
AddCookies(l) ==
    /\ pc[l] = "add_cookies"
    /\ cookies' = [cookies EXCEPT ![l] = <<>>]
    /\ \/ /\ Move(l, Stay("new_page"), now)
          /\ ctx' = [ctx EXCEPT ![l] = [state |-> "open", cookies |-> cookies[l]]]
          /\ UNCHANGED <<env, current_cookies, flags, handles, ret>>
       \/ /\ Move(l, Stay("sleep_err"), now)
          /\ ExitWith(l)
          /\ UNCHANGED <<env, current_cookies, flags, handles, ret>>

\* Line 61: new_page.
NewPage(l) ==
    /\ pc[l] = "new_page"
    /\ \/ /\ Move(l, Stay("route"), now)
          /\ page' = l
          /\ UNCHANGED <<env, current_cookies, flags, browser, locals, ctx>>
       \/ Raise(l)

\* Lines 64-70: the callbacks are registered and the navigation begins.
Route(l) ==
    /\ pc[l] = "route"
    /\ \/ /\ Move(l, Stay("goto"), now)
          /\ UNCHANGED <<env, current_cookies, flags, handles, locals, ctx>>
       \/ Raise(l)

\* AfterNavigation with no handler around line 70: a failed navigation
\* reaches line 122.
AfterNavigationRaises(nav, r) == IF nav = "failed" THEN Stay("sleep_err") ELSE r

\* Lines 69-74: where start() goes on after the navigation: to r, the first
\* evaluation of line 78, whatever the outcome.
AfterNavigation(nav, r) == r

\* Lines 70-94: the navigation ends (a failure is only logged), the flags are
\* reset and the liveness loop begins.
Goto(l) ==
    /\ pc[l] = "goto"
    /\ restart_requested' = FALSE
    /\ refresh_needed' = FALSE
    /\ \E nav \in Navigations, onUrl \in BOOLEAN :
          Resume(l, AfterNavigation(nav, Tick(is_running, FALSE, FALSE,
                                              last_login_retry_time, last_detection,
                                              now, onUrl)),
                 now, nav)
    /\ UNCHANGED <<env, current_cookies, handles, locals, ctx>>

\* Line 122-124: the backoff after an exception.
SleepErr(l, h) ==
    /\ pc[l] = "sleep_err"
    /\ \E d \in SleepTimes(Backoff, h) :
          Move(l, Stay(OuterTop(is_running)), now + d)
    /\ UNCHANGED <<env, current_cookies, flags, handles, locals, ctx>>

\* Lines 118-120: browser.close() returns and the iteration ends, or raises.
Close(l) ==
    /\ pc[l] \in {"close", "close_expired"}
    /\ \/ /\ Move(l, Stay(OuterTop(is_running)), now)
          /\ ctx' = [k \in Loops |-> IF k = l \/ k = browser THEN NoContext ELSE ctx[k]]
          /\ UNCHANGED <<env, current_cookies, flags, handles, locals>>
       \/ Raise(l)

\* ----------------------------------------------------- the liveness loop
\* Lines 84-91: page.reload returns (the flag is cleared and the stabilization
\* sleep begins) or raises (`continue`).
Reload(l) ==
    /\ pc[l] = "reload"
    /\ \/ /\ refresh_needed' = FALSE
          /\ Move(l, Stay("sleep_refresh"), now)
          /\ UNCHANGED <<env, current_cookies, restart_requested, handles, locals, ctx>>
       \/ /\ \E onUrl \in BOOLEAN :
                Move(l, Tick(is_running, restart_requested, refresh_needed,
                             last_login_retry_time, last_detection, now, onUrl), now)
          /\ UNCHANGED <<env, current_cookies, flags, handles, locals, ctx>>

\* Lines 87-88: the stabilization sleep ends and perform_harvest is called.
SleepRefresh(l, h) ==
    /\ pc[l] = "sleep_refresh"
    /\ \E d \in SleepTimes(PollInterval, h), onUrl \in BOOLEAN :
          IF HarvestEntry(page) = "ph_dialog"
          THEN Move(l, Stay("ph_dialog"), now + d)
          ELSE Move(l, AfterHarvest("A", is_running, restart_requested, refresh_needed,
                                    last_login_retry_time, last_detection, now + d, onUrl),
                    now + d)
    /\ ret' = [ret EXCEPT ![l] = "A"]
    /\ UNCHANGED <<env, current_cookies, flags, handles, cookies, ctx>>

\* Lines 94-116: page.title() returns (a sign-in title or another) or raises.
Title(l) ==
    /\ pc[l] = "title"
    /\ \/ /\ Move(l, LoginBranch(last_login_retry_time, now), now)
          /\ UNCHANGED <<env, current_cookies, flags, handles, locals, ctx>>
       \/ /\ Move(l, Stay(CaseC(now, last_harvest_time, latest_harvest, page)), now)
          /\ ret' = [ret EXCEPT ![l] = "C"]
          /\ UNCHANGED <<env, current_cookies, flags, handles, cookies, ctx>>
       \/ Raise(l)

\* Lines 101-116: the retry navigation returns (pause, then `continue`) or
\* raises (swallowed: the tick goes on to the harvest branch).
RetryGoto(l) ==
    /\ pc[l] = "retry_goto"
    /\ \/ /\ Move(l, Stay("sleep_retry"), now)
          /\ UNCHANGED <<env, current_cookies, flags, handles, locals, ctx>>
       \/ /\ Move(l, Stay(CaseC(now, last_harvest_time, latest_harvest, page)), now)
          /\ ret' = [ret EXCEPT ![l] = "C"]
          /\ UNCHANGED <<env, current_cookies, flags, handles, cookies, ctx>>

\* Lines 102-104: the pause after the retry navigation, then `continue`.
SleepRetry(l, h) ==
    /\ pc[l] = "sleep_retry"
    /\ \E d \in SleepTimes(PollInterval, h), onUrl \in BOOLEAN :
          Move(l, Tick(is_running, restart_requested, refresh_needed,
                       last_login_retry_time, last_detection, now + d, onUrl), now + d)
    /\ UNCHANGED <<env, current_cookies, flags, handles, locals, ctx>>

\* Line 116: the polling sleep, then the next evaluation of the loop condition.
SleepTick(l, h) ==
    /\ pc[l] = "sleep_tick"
    /\ \E d \in SleepTimes(PollInterval, h), onUrl \in BOOLEAN :
          Move(l, Tick(is_running, restart_requested, refresh_needed,
                       last_login_retry_time, last_detection, now + d, onUrl), now + d)
    /\ UNCHANGED <<env, current_cookies, flags, handles, locals, ctx>>

\* ------------------------------------------------------ perform_harvest
\* perform_harvest suspended at `from` goes on to `to`, d seconds later.
Harvest(l, from, to, d) ==
    /\ pc[l] = from
    /\ Move(l, Stay(to), now + d)
    /\ UNCHANGED <<env, current_cookies, flags, handles, locals, ctx>>

\* perform_harvest suspended at `from` returns (line 212, the end of the
\* procedure, or the handler at line 225), leaving rfn in refresh_needed.
HarvestExit(l, from, d, rfn) ==
    /\ pc[l] = from
    /\ refresh_needed' = rfn
    /\ \E onUrl \in BOOLEAN :
          Move(l, AfterHarvest(ret[l], is_running, restart_requested, rfn,
                               last_login_retry_time, last_detection, now + d, onUrl),
               now + d)
    /\ UNCHANGED <<env, current_cookies, restart_requested, handles, locals, ctx>>

HarvestReturn(l, from, d) == HarvestExit(l, from, d, refresh_needed)

\* Line 170: is the terms dialog visible.
PhDialog(l) ==
    \/ Harvest(l, "ph_dialog", "ph_terms", 0)
    \/ Harvest(l, "ph_dialog", "ph_popups", 0)
    \/ HarvestReturn(l, "ph_dialog", 0)

\* Lines 173-180: scroll the dialog (errors swallowed), tick the checkbox.
PhTerms(l) ==
    \/ Harvest(l, "ph_terms", "ph_sleep1", 0)
    \/ HarvestReturn(l, "ph_terms", 0)

\* Line 181: sleep(1).
PhSleep1(l, h) == \E d \in ShortSleepTimes(h) : Harvest(l, "ph_sleep1", "ph_agree", d)

\* Lines 184-192: click the agree buttons, wait for the dialog to hide (a
\* timeout is swallowed).
PhAgree(l) ==
    \/ Harvest(l, "ph_agree", "ph_popups", 0)
    \/ HarvestReturn(l, "ph_agree", 0)

\* Lines 195-200: the other popups, each error swallowed.
PhPopups(l) == Harvest(l, "ph_popups", "ph_editor", 0)

\* RefreshAfterEditorWait with the escalation that line 211 leaves out.
RefreshEscalated(rfn) == TRUE

\* Lines 209-212: refresh_needed after the editor was waited for in vain.
RefreshAfterEditorWait(rfn) == rfn

\* Lines 207-212: wait for the editor; a timeout (or an error at once) ends
\* the procedure.
PhEditor(l, h) ==
    \/ Harvest(l, "ph_editor", "ph_type", 0)
    \/ \E d \in {0} \cup SleepTimes(EditorTimeout, h) :
          HarvestExit(l, "ph_editor", d, RefreshAfterEditorWait(refresh_needed))

\* Lines 214-216: click, clear, fill.
PhType(l) ==
    \/ Harvest(l, "ph_type", "ph_sleep_half", 0)
    \/ HarvestReturn(l, "ph_type", 0)

\* Line 217: sleep(0.5).
PhSleepHalf(l, h) == \E d \in ShortSleepTimes(h) : Harvest(l, "ph_sleep_half", "ph_press", d)

\* Line 220: press Enter.
PhPress(l) ==
    \/ Harvest(l, "ph_press", "ph_settle", 0)
    \/ HarvestReturn(l, "ph_press", 0)

\* Line 223: sleep(3), the end of the procedure.
PhSettle(l, h) == \E d \in ShortSleepTimes(h) : HarvestReturn(l, "ph_settle", d)

\* ------------------------------------------------------- the callbacks
\* Text is a sequence of tokens; `sub in text` is the presence of a token.
Contains(text, tok) == \E i \in DOMAIN text : text[i] = tok

\* The requests the engine intercepts.  body_error: reading request.post_data
\* raises.  An empty post_data is Python's None or "".  A request to another
\* URL or with another method is given the body that would otherwise qualify.
Requests ==
    { r \in [url : {<<"console", "batchGraphql">>, <<"console", "other">>},
             method : {"POST", "GET"},
             headers : {"h1"},
             post_data : {<<>>, <<"query">>, <<"x", "StreamGenerateContent">>,
                          <<"generateContent">>},
             body_error : BOOLEAN] :
        /\ r.body_error => r.post_data = <<"generateContent">>
        /\ (r.url # <<"console", "batchGraphql">> \/ r.method # "POST")
              => (r.post_data = <<"generateContent">> /\ ~r.body_error) }

\* The ways cred_manager.update ends.
SinkResults == {"ok", "raise"}

\* Inspect without the test of the method at line 141.
InspectAnyMethod(req, sink) ==
    IF ~Contains(req.url, "batchGraphql") THEN "skipped"
    ELSE IF req.body_error THEN "raised"
    ELSE IF ~(req.post_data # <<>> /\ (Contains(req.post_data, "StreamGenerateContent")
                                       \/ Contains(req.post_data, "generateContent")))
         THEN "passed"
    ELSE IF sink = "raise" THEN "raised"
    ELSE "captured"

\* Lines 141-157: how far the inspection of the request gets.
\*   "skipped"  the outer `if` fails        "passed"   no marker in the body
\*   "captured" the sink took the artifact  "raised"   the handler at line 156
Inspect(req, sink) ==
    IF ~(Contains(req.url, "batchGraphql") /\ req.method = "POST") THEN "skipped"
    ELSE IF req.body_error THEN "raised"
    ELSE IF ~(req.post_data # <<>> /\ (Contains(req.post_data, "StreamGenerateContent")
                                       \/ Contains(req.post_data, "generateContent")))
         THEN "passed"
    ELSE IF sink = "raise" THEN "raised"
    ELSE "captured"

\* Lines 146-152: the sink's update is called, with this artifact.
SinkCalls(req) ==
    IF Inspect(req, "ok") = "captured"
    THEN << [url |-> req.url, method |-> req.method, headers |-> req.headers,
             body |-> req.post_data] >>
    ELSE <<>>

\* Continues with route.continue_() inside the try block.
ContinuesUnlessRaised(outcome) == IF outcome = "raised" THEN 0 ELSE 1

\* Line 158: the calls of route.continue_() after an inspection ending in `outcome`.
Continues(outcome) == 1

\* Lines 152-158: the calls handle_route makes on the sink and the route, in
\* the order it makes them.
RouteCalls(req, sink) ==
    [i \in 1..Len(SinkCalls(req)) |-> "update"]
        \o [i \in 1..Continues(Inspect(req, sink)) |-> "continue"]

\* Line 153: last_harvest_time after the inspection, made at time t.
HarvestTimeAfter(outcome, lht, t) == IF outcome = "captured" THEN t ELSE lht

\* RetryTimeAfter without the reset of line 155.
RetryTimeKept(outcome, llrt) == llrt

\* Line 155: last_login_retry_time after the inspection.
RetryTimeAfter(outcome, llrt) == IF outcome = "captured" THEN 0 ELSE llrt

\* The requests with the ways the sink may end on each.
RouteInputs ==
    {in \in Requests \X SinkResults :
        in[2] = "raise" => Inspect(in[1], "ok") = "captured"}

\* Lines 139-158: handle_route.
HandleRoute(req, sink) ==
    /\ \E l \in Loops : pc[l] \in PagePcs
    /\ LET outcome == Inspect(req, sink) IN
       /\ latest_harvest' = IF outcome = "captured" THEN SinkCalls(req) ELSE latest_harvest
       /\ last_harvest_time' = HarvestTimeAfter(outcome, last_harvest_time, now)
       /\ last_login_retry_time' = RetryTimeAfter(outcome, last_login_retry_time)
       /\ event' = [op |-> "route", req |-> req, sink |-> sink,
                    updates |-> Len(SinkCalls(req)), continued |-> Continues(outcome),
                    sunk |-> SinkCalls(req), order |-> RouteCalls(req, sink)]
    /\ UNCHANGED <<is_running, current_cookies, flags, handles, now, pc, locals, ctx,
                   last_detection, obs>>

\* The responses the engine observes.
Responses ==
    { r \in [url : {<<"console", "batchGraphql">>, <<"console", "other">>},
             status : {200, 401, 403, 500}] :
        r.url # <<"console", "batchGraphql">> => r.status \in {200, 401} }

\* Unauthorized without the test of the endpoint.
UnauthorizedAnywhere(resp) == resp.status \in {401, 403}

\* Lines 132-133: the response marks the session for a refresh.
Unauthorized(resp) == Contains(resp.url, "batchGraphql") /\ resp.status \in {401, 403}

\* Lines 129-137: handle_response.
HandleResponse(resp) ==
    /\ \E l \in Loops : pc[l] \in PagePcs
    /\ refresh_needed' = IF Unauthorized(resp) THEN TRUE ELSE refresh_needed
    /\ event' = [op |-> "response", resp |-> resp]
    /\ obs' = [l \in Loops |->
                 IF Unauthorized(resp) /\ pc[l] \in LoadPcs
                 THEN [obs[l] EXCEPT !.signal = TRUE] ELSE obs[l]]
    /\ UNCHANGED <<is_running, last_harvest_time, current_cookies, restart_requested,
                   last_login_retry_time, handles, latest_harvest, now, pc, locals,
                   ctx, last_detection>>

\* Lines 25-29: update_cookies.
UpdateCookies(new) ==
    /\ current_cookies' = new
    /\ restart_requested' = TRUE
    /\ UNCHANGED <<is_running, last_harvest_time, refresh_needed, last_login_retry_time,
                   handles, latest_harvest, now, pc, locals, ctx, event, last_detection,
                   obs>>

\* A stop request: the owner of the harvester clears is_running.
Stop ==
    /\ is_running
    /\ is_running' = FALSE
    /\ UNCHANGED <<last_harvest_time, current_cookies, flags, last_login_retry_time,
                   handles, latest_harvest, now, pc, locals, ctx, event, last_detection,
                   obs>>

\* ------------------------------------------------------ specifications
\* One step of the start() coroutine l.
LoopStep(l, h) ==
    \/ PwStart(l) \/ Launch(l) \/ NewContext(l) \/ SleepBad(l, h) \/ AddCookies(l)
    \/ NewPage(l) \/ Route(l) \/ Goto(l) \/ SleepErr(l, h) \/ Close(l)
    \/ Reload(l) \/ SleepRefresh(l, h) \/ Title(l) \/ RetryGoto(l) \/ SleepRetry(l, h)
    \/ SleepTick(l, h)
    \/ PhDialog(l) \/ PhTerms(l) \/ PhSleep1(l, h) \/ PhAgree(l) \/ PhPopups(l)
    \/ PhEditor(l, h) \/ PhType(l) \/ PhSleepHalf(l, h) \/ PhPress(l) \/ PhSettle(l, h)

\* The request and the response of the specification Spec: the ones that
\* write a field of the session state.
MainRequests ==
    {r \in Requests : /\ r.url = <<"console", "batchGraphql">> /\ r.method = "POST"
                      /\ ~r.body_error
                      /\ r.post_data = <<"generateContent">>}
MainResponses == {r \in Responses : r.url = <<"console", "batchGraphql">>
                                    /\ r.status = 401}

\* Spec: start() is called once at a time (the caller awaits it before calling
\* it again); stop requests, material updates and the callbacks arrive at any
\* suspension point.
Next ==
    \/ Start(1)
    \/ LoopStep(1, MainElapsed)
    \/ Stop
    \/ \E m \in Materials \ {None} : UpdateCookies(m)
    \/ \E r \in MainRequests : HandleRoute(r, "ok")
    \/ \E r \in MainResponses : HandleResponse(r)

Spec == Init /\ [][Next]_vars

\* SpecLogin: the session loop and its callbacks over a horizon longer than the
\* login cooldown, with no stop request and no material update.
NextLogin ==
    \/ Start(1)
    \/ LoopStep(1, LoginElapsed)
    \/ \E r \in MainRequests : HandleRoute(r, "ok")
    \/ \E r \in MainResponses : HandleResponse(r)

SpecLogin == Init /\ [][NextLogin]_vars

\* SpecCb: the callbacks on every request, sink result and response, between
\* the steps of the session loop.
NextCb ==
    \/ Start(1)
    \/ LoopStep(1, CbElapsed)
    \/ \E in \in RouteInputs : HandleRoute(in[1], in[2])
    \/ \E r \in Responses : HandleResponse(r)

SpecCb == Init /\ [][NextCb]_vars

\* SpecMulti: start() may be called at any time, also while an earlier call
\* has not returned (the first call as coroutine 1); stop requests come before
\* the second call.  The material is malformed at first and, once cleared,
\* supplied by update_cookies.
InitMulti == Init /\ current_cookies = "[c1"

NextMulti ==
    \/ Start(1)
    \/ pc[1] # "idle" /\ Start(2)
    \/ \E l \in Loops : LoopStep(l, MultiElapsed)
    \/ pc[2] = "idle" /\ Stop
    \/ ~Truthy(current_cookies) /\ UpdateCookies("[c2]")
    \/ \E r \in MainResponses : HandleResponse(r)

SpecMulti == InitMulti /\ [][NextMulti]_vars

\* SpecHarvest: the session loop and its callbacks over the first
\* HarvestElapsed seconds and, one harvest interval later, as many again; no
\* stop request and no material update.
NextHarvest ==
    \/ Start(1)
    \/ LoopStep(1, HarvestInterval + HarvestElapsed)
    \/ \E r \in MainRequests : HandleRoute(r, "ok")
    \/ \E r \in MainResponses : HandleResponse(r)

SpecHarvest == Init /\ [][NextHarvest]_vars

\* SpecStop: the session loop with stop requests in the first StopBy seconds
\* and no material update.  Every engine operation and every sleep returns: a
\* suspended coroutine is resumed (weak fairness of its steps).
StopInTime == now <= StartTime + StopBy /\ Stop

NextStop ==
    \/ Start(1)
    \/ LoopStep(1, StopElapsed)
    \/ StopInTime
    \/ \E r \in MainResponses : HandleResponse(r)

SpecStop == Init /\ [][NextStop]_vars /\ WF_vars(LoopStep(1, StopElapsed))

\* =================================================================== claims
\* The suspension points a tick of the liveness loop ends at: the step taken
\* from them evaluates the loop condition (line 78) next.
TickEnd(l) ==
    \/ pc[l] \in {"sleep_tick", "sleep_retry", "reload"}
    \/ pc[l] \in HarvestPcs /\ ret[l] = "A"

\* The cookies a context created from material m carries.
Injectable(m) == IF Truthy(m) /\ JsonLoads(m).ok THEN JsonLoads(m).val ELSE <<>>

\* A step in which coroutine l detects a login redirect (lines 94-110).
Detects(l) ==
    /\ pc'[l] \in {"retry_goto", "close_expired"}
    /\ pc[l] \notin {"retry_goto", "close_expired"}

\* C1: no restart request is lost: while the liveness loop runs on a context
\* whose cookies are not those of the current material, a restart is pending.
C1_RestartNeverLost ==
    \A l \in Loops :
        pc[l] \in InnerPcs =>
            ctx[l].cookies = Injectable(current_cookies) \/ restart_requested

\* C2: handle_route calls route.continue_() exactly once for the intercepted
\* request, whatever the inspection of the request came to.
C2_ContinueOnce == event.op = "route" => event.continued = 1

\* C2 witness: the sink raised on a qualifying request, and the request went on.
C2_Witness ==
    /\ event.op = "route"
    /\ Inspect(event.req, "ok") = "captured"
    /\ event.sink = "raise"
    /\ event.continued = 1

\* C3 (as claimed): a login-redirect detection less than 60 s after the previous
\* one exits the liveness loop as expired.
C3_SecondDetectionExpires ==
    [][\A l \in Loops :
          (Detects(l) /\ last_detection # 0 /\ now' - last_detection < LoginCooldown)
              => pc'[l] = "close_expired"]_vars

\* C3 (amended): a login-redirect detection less than 60 s after a detection
\* that performed the retry navigation, with no capture in between (the time
\* of that retry is still in last_login_retry_time), exits the liveness loop
\* as expired and performs no retry navigation.
C3_ExpiresWithinCooldownOfRetry ==
    [][\A l \in Loops :
          (Detects(l) /\ last_login_retry_time # 0
                      /\ now' - last_login_retry_time < LoginCooldown)
              => /\ pc'[l] = "close_expired"
                 /\ last_login_retry_time' = last_login_retry_time]_vars

\* C3 witness: expired at a detection later than the retry, within the cooldown.
C3_Witness ==
    /\ pc[1] = "close_expired"
    /\ last_login_retry_time # 0
    /\ last_detection > last_login_retry_time
    /\ last_detection - last_login_retry_time < LoginCooldown

\* C4: with a restart requested during the liveness loop, no further tick
\* begins (the loop leaves at the next evaluation of its condition); leaving
\* browser.close() the context is gone; and the next context is given the
\* material current when it is created.
C4_RestartExitsLoop ==
    /\ [][\A l \in Loops :
            (restart_requested /\ TickEnd(l) /\ pc'[l] # pc[l])
                => pc'[l] \notin TickFirstPcs]_vars
    /\ [][\A l \in Loops :
            (restart_requested /\ Reload(l)) => pc'[l] \in {"sleep_refresh", "close"}]_vars
    /\ [][\A l \in Loops :
            (pc[l] = "close" /\ pc'[l] # pc[l]) => ctx'[l] = NoContext]_vars
    /\ [][\A l \in Loops :
            (pc[l] = "new_context" /\ pc'[l] = "add_cookies")
                => cookies'[l] = Injectable(current_cookies)]_vars
    /\ [][\A l \in Loops :
            (pc[l] = "add_cookies" /\ pc'[l] = "new_page")
                => ctx'[l] = [state |-> "open", cookies |-> cookies[l]]]_vars

\* C4 witness: still running, the liveness loop was left for a restart.
C4_Witness == pc[1] = "close" /\ restart_requested /\ is_running

\* C5: a tick that begins with refresh_needed set goes to the page reload, also
\* when the harvest is due; the reload clears the flag; perform_harvest follows
\* the stabilization sleep; and when it returns the tick is over (the loop
\* condition is next, not the harvest branch).
C5_RefreshBeforeHarvest ==
    /\ [][\A l \in Loops :
            (pc[l] \in {"sleep_tick", "sleep_retry"} /\ pc'[l] # pc[l]
               /\ is_running /\ ~restart_requested /\ refresh_needed)
                => pc'[l] = "reload"]_vars
    /\ [][\A l \in Loops :
            (pc[l] = "reload" /\ pc'[l] = "sleep_refresh") => ~refresh_needed']_vars
    /\ [][\A l \in Loops :
            (pc[l] = "sleep_refresh" /\ pc'[l] # pc[l])
                => pc'[l] = "ph_dialog" /\ ret'[l] = "A"]_vars
    /\ [][\A l \in Loops :
            (pc[l] \in HarvestPcs /\ ret[l] = "A")
                => /\ pc'[l] \in HarvestPcs \cup TickFirstPcs \cup {"close"}
                   /\ pc'[l] \in HarvestPcs => ret'[l] = "A"
                   /\ (pc'[l] \notin HarvestPcs /\ ~(is_running /\ ~restart_requested))
                         => pc'[l] = "close"
                   /\ (pc'[l] \notin HarvestPcs /\ is_running /\ ~restart_requested
                         /\ refresh_needed) => pc'[l] = "reload"]_vars

\* C5 witness: perform_harvest runs from the refresh branch while the harvest is due.
C5_Witness ==
    /\ pc[1] \in HarvestPcs
    /\ ret[1] = "A"
    /\ HarvestDue(now, last_harvest_time, latest_harvest)

\* C6: handle_response sets refresh_needed on a 401 or 403 of the target
\* endpoint, leaves it on anything else, and writes no other field.
C6_ResponseFrame ==
    [][(event'.op = "response" /\ HandleResponse(event'.resp)) =>
          LET r == event'.resp IN
          /\ refresh_needed' =
                (refresh_needed \/ (Contains(r.url, "batchGraphql")
                                    /\ r.status \in {401, 403}))
          /\ UNCHANGED <<last_harvest_time, last_login_retry_time,
                         restart_requested, is_running, current_cookies>>]_vars

\* C6 witness: a 403 of the target endpoint was observed and the flag is set.
C6_Witness ==
    /\ event.op = "response"
    /\ Contains(event.resp.url, "batchGraphql")
    /\ event.resp.status = 403
    /\ refresh_needed

\* C7: a capture (the sink's update returned) leaves last_login_retry_time 0
\* and last_harvest_time the time of the capture; any other request leaves both.
C7_CaptureWrites ==
    [][(event'.op = "route" /\ HandleRoute(event'.req, event'.sink)) =>
          LET r == event'.req IN
          IF /\ Contains(r.url, "batchGraphql") /\ r.method = "POST"
             /\ ~r.body_error
             /\ (Contains(r.post_data, "StreamGenerateContent")
                 \/ Contains(r.post_data, "generateContent"))
             /\ event'.sink = "ok"
          THEN last_login_retry_time' = 0 /\ last_harvest_time' = now
          ELSE UNCHANGED <<last_harvest_time, last_login_retry_time>>]_vars

\* C7 witness: a capture after a retry navigation has reset the retry time.
C7_Witness ==
    /\ event.op = "route"
    /\ event.updates = 1
    /\ event.sink = "ok"
    /\ last_detection # 0
    /\ last_login_retry_time = 0
    /\ last_harvest_time = now

\* C8: malformed material does not end the session loop: decoding it clears
\* the material and leads to the backoff sleep with is_running untouched; the
\* backoff leads to the next iteration (or out, once stopped); in the backoff
\* only update_cookies writes the material; and with no material the context
\* is created without cookies.
C8_MalformedMaterial ==
    /\ [][\A l \in Loops :
            (pc[l] = "new_context" /\ pc'[l] # pc[l] /\ Truthy(current_cookies)
               /\ ~JsonLoads(current_cookies).ok)
                => \/ /\ pc'[l] = "sleep_bad"
                      /\ current_cookies' = None
                      /\ is_running' = is_running
                   \/ pc'[l] = "sleep_err"]_vars
    /\ [][\A l \in Loops :
            (pc[l] = "sleep_bad" /\ pc'[l] # pc[l])
                => pc'[l] = (IF is_running THEN "pw_start" ELSE "idle")]_vars
    /\ [][\A l \in Loops :
            (pc[l] = "sleep_bad" /\ current_cookies' # current_cookies)
                => \E m \in Materials : UpdateCookies(m)]_vars
    /\ [][\A l \in Loops :
            (pc[l] = "new_context" /\ pc'[l] # pc[l] /\ current_cookies = None)
                => \/ pc'[l] = "new_page" /\ ctx'[l] = [state |-> "open", cookies |-> <<>>]
                   \/ pc'[l] = "sleep_err"]_vars

\* C8 witness: malformed material was found and cleared, the session loop is
\* in its backoff sleep and still running.
C8_Witness ==
    /\ pc[1] = "sleep_bad"
    /\ current_cookies = None
    /\ is_running
    /\ ctx[1] = [state |-> "open", cookies |-> <<>>]

\* C9: with no capture yet (last_harvest_time = 0) the first tick begins with
\* the login check, not the refresh branch, and a tick that passes the login
\* check calls perform_harvest from the harvest branch.
C9_FirstTickHarvests ==
    /\ [][\A l \in Loops :
            (Goto(l) /\ is_running) => pc'[l] \in {"title", "retry_goto", "close_expired"}]_vars
    /\ [][\A l \in Loops :
            (pc[l] \in {"title", "retry_goto"} /\ last_harvest_time = 0
               /\ pc'[l] \notin {pc[l], "sleep_err", "retry_goto", "close_expired",
                                 "sleep_retry"})
                => pc'[l] = "ph_dialog" /\ ret'[l] = "C"]_vars

\* C9 witness: fresh material injected, no capture, no sleep and no login
\* redirect so far, and perform_harvest was called from the harvest branch.
C9_Witness ==
    /\ pc[1] = "ph_dialog"
    /\ ret[1] = "C"
    /\ last_harvest_time = 0
    /\ last_detection = 0
    /\ now = StartTime
    /\ ctx[1].cookies = <<"c1">>
    /\ ~restart_requested

\* C10: at most one session loop and at most one browser context at any time.
C10_SingleSession ==
    /\ Cardinality({l \in Loops : pc[l] # "idle"}) <= 1
    /\ Cardinality({l \in Loops : ctx[l].state # "none"}) <= 1

\* The suspension points in an engine operation whose exception is caught
\* only at line 122.
EnginePcs == {"pw_start", "launch", "new_context", "add_cookies", "new_page",
              "route", "title", "close", "close_expired"}

\* C11: an exception of an engine operation does not end the session loop:
\* it leads to the backoff sleep with is_running untouched; the backoff lasts
\* at least its 10 s and leads to the next iteration while is_running holds;
\* and start() returns only when is_running is false.
C11_ExceptionBacksOff ==
    /\ [][\A l \in Loops :
            (pc[l] \in EnginePcs /\ pc'[l] = "sleep_err")
                => /\ is_running' = is_running
                   /\ ctx'[l] = NoContext]_vars
    /\ [][\A l \in Loops :
            (pc[l] = "sleep_err" /\ pc'[l] # pc[l])
                => /\ pc'[l] = (IF is_running THEN "pw_start" ELSE "idle")
                   /\ now' >= now + Backoff]_vars
    /\ [][\A l \in Loops :
            (pc[l] # "idle" /\ pc'[l] = "idle") => ~is_running]_vars

\* C11 witness: an engine operation raised after the page was opened (the
\* title read or browser.close()): the session loop is in the backoff sleep,
\* still running, the engine of the iteration stopped.
C11_Witness ==
    /\ pc[1] = "sleep_err"
    /\ is_running
    /\ page = 1
    /\ ctx[1] = NoContext
    /\ now > StartTime

\* C12 (as claimed): once is_running is false, no browser context is created.
C12_StopCreatesNoContext ==
    [][\A l \in Loops :
          ~is_running => ~(ctx[l].state # "open" /\ ctx'[l].state = "open")]_vars

\* C12 (amended): once is_running is false, the liveness loop begins no
\* further tick (it leaves at the next evaluation of its condition), no
\* further iteration of the session loop begins, and start() returns.
C12_StopEndsSession ==
    /\ [][\A l \in Loops :
            (~is_running /\ (TickEnd(l) \/ pc[l] = "goto") /\ pc'[l] # pc[l])
                => pc'[l] \notin TickFirstPcs]_vars
    /\ [][\A l \in Loops :
            (pc[l] # "pw_start" /\ pc'[l] = "pw_start") => is_running']_vars
    /\ (~is_running ~> pc[1] = "idle")

\* C12 witness: stopped after the refresh branch ran; the liveness loop has
\* been left and the context is about to be closed.
C12_Witness ==
    /\ ~is_running
    /\ pc[1] = "close"
    /\ ret[1] = "A"
    /\ ctx[1].state = "open"

\* C13: in a tick in which a login redirect was detected, perform_harvest is
\* not invoked: from the retry navigation the tick goes to its pause or out of
\* the loop, never into the interaction procedure.
C13_NoHarvestAfterDetection ==
    [][\A l \in Loops :
          pc[l] \in {"retry_goto", "close_expired"} => pc'[l] \notin HarvestPcs]_vars

\* C14: between two consecutive ticks of the liveness loop there is a sleep:
\* no second tick begins before a sleep has completed since the first began.
C14_SleepBetweenTicks == \A l \in Loops : obs[l].ticks <= 1

\* C15: a sleep lies between two consecutive expired exits of the liveness
\* loop.  The clock advances only in sleeps and bounded waits, so two exits at
\* one reading of the clock have no sleep between them.
C15_PauseBetweenExpiredExits ==
    [][\A l \in Loops :
          (Detects(l) /\ pc'[l] = "close_expired" /\ last_detection # 0)
              => now' > last_detection]_vars

\* C20: a 401/403 signal is not lost: refresh_needed is not cleared by the
\* end of a navigation or reload during which the signal arrived; it is
\* cleared only by a reload begun after the signal, or after the context of
\* the signal has been torn down.
C20_SignalNeverLost ==
    [][(refresh_needed /\ ~refresh_needed') => \A l \in Loops : ~obs[l].signal]_vars

\* C16: a tick that passes the refresh check and the login check invokes
\* perform_harvest if and only if more than 2700 s have passed since
\* last_harvest_time or there has been no capture (last_harvest_time is 0).
C16_HarvestWhenDue ==
    [][\A l \in Loops :
          (pc[l] = "title" /\ pc'[l] \in {"ph_dialog", "sleep_tick"})
              => (pc'[l] = "ph_dialog"
                    <=> (now - last_harvest_time > HarvestInterval
                            \/ last_harvest_time = 0))]_vars

\* C16 witness: perform_harvest invoked by the harvest branch after a capture,
\* more than 2700 s after it.
C16_Witness ==
    /\ pc[1] = "ph_dialog"
    /\ ret[1] = "C"
    /\ last_harvest_time # 0
    /\ latest_harvest # <<>>
    /\ now - last_harvest_time > HarvestInterval

\* C17: handle_route calls the sink's update once, with the artifact made of
\* the request's url, method, headers and body, and before it lets the request
\* continue, when the url is of the target endpoint, the method is POST and the
\* body (as request.post_data gives it) holds a marker; otherwise not at all.
C17_UpdateOncePerQualifying ==
    event.op = "route" =>
        LET r == event.req
            qualifies ==
                /\ Contains(r.url, "batchGraphql")
                /\ r.method = "POST"
                /\ ~r.body_error
                /\ (Contains(r.post_data, "StreamGenerateContent")
                       \/ Contains(r.post_data, "generateContent"))
        IN  IF qualifies
            THEN /\ event.sunk = << [url |-> r.url, method |-> r.method,
                                     headers |-> r.headers, body |-> r.post_data] >>
                 /\ event.order = <<"update", "continue">>
            ELSE /\ event.sunk = <<>>
                 /\ event.order = <<"continue">>

\* C17 witness: a streaming request of the target endpoint was intercepted
\* and its artifact is what the sink holds.
C17_Witness ==
    /\ event.op = "route"
    /\ Contains(event.req.post_data, "StreamGenerateContent")
    /\ event.order = <<"update", "continue">>
    /\ latest_harvest = << [url |-> event.req.url, method |-> "POST",
                            headers |-> event.req.headers,
                            body |-> event.req.post_data] >>

C19_NavigationFailureTolerated ==
    [][\A l \in Loops :
          (pc[l] = "goto" /\ obs'[l].nav = "failed")
              => /\ pc'[l] # "sleep_err"
                 /\ ~restart_requested'
                 /\ ~refresh_needed'
                 /\ ctx[l].state = "open"
                 /\ ctx'[l] = ctx[l]
                 /\ pc'[l] \in (IF is_running THEN TickFirstPcs ELSE {"close"})]_vars

\* C19 witness: the initial navigation failed and the first tick of the
\* liveness loop is under way on the context the cookies were injected into.
C19_Witness ==
    /\ obs[1].nav = "failed"
    /\ pc[1] = "title"
    /\ ctx[1] = [state |-> "open", cookies |-> <<"c1">>]
    /\ ~refresh_needed
    /\ ~restart_requested

====
